---- MODULE Spec2Model ----
(***************************************************************************)
(* Model of hotel_booking_agent.py: the per-turn dialogue pipeline         *)
(* (detect_intent -> process_input -> handle_booking / handle_rescheduling *)
(* / handle_question) run by handle_instagram_dm against the two JSON      *)
(* files reservations.json and chat_sessions.json.                         *)
(*                                                                         *)
(* A message is a sequence of whitespace-separated tokens.  The lexical    *)
(* facts the code's regular expressions and substring tests depend on are  *)
(* tabulated per token of the vocabulary below.                            *)
(***************************************************************************)
EXTENDS Integers, Sequences, FiniteSets, TLC

VARIABLES
    reservations,   \* content of reservations.json: a sequence of records
    chat_sessions,  \* content of chat_sessions.json: user id -> session
    now,            \* datetime.now(), a logical clock: the number of turns so far
    last,           \* the arguments and the outcome of the latest turn
    flow,           \* history: per user, what the current booking flow was given
    script,         \* history: the messages so far, while they follow the one-value-per-message dialogue
    faults,         \* the number of turns so far in which a storage or service call failed
    proc            \* per user, the position and the local data of a turn taken step by step

vars == <<reservations, chat_sessions, now, last, flow, script, faults, proc>>

\* ---------------------------------------------------------------- bounds
\* Number of turns (calls of handle_instagram_dm) explored.
MaxTurns == 6

Users == {"A", "B"}

\* ------------------------------------------------------------ dictionaries
EmptyDict == [k \in {} |-> TRUE]

Put(d, k, v) == [x \in (DOMAIN d) \cup {k} |-> IF x = k THEN v ELSE d[x]]

Pop(d, ks) == [x \in (DOMAIN d) \ ks |-> d[x]]

\* ------------------------------------------------------------- vocabulary
DateTokens == {"2025-07-01", "2025-07-03"}

NumberTokens == {"1", "2", "0"}

WordTokens == {"I", "want", "to", "book", "a", "room", "booking",
               "reschedule", "hello", "price", "deluxe", "suite",
               "guests", "july", "1st"}

\* str.lower()
Lower(t) == IF t = "I" THEN "i" ELSE t

\* The maximal digit runs of a token, left to right, as integers.
DigitRuns(t) ==
    CASE t = "2025-07-01" -> <<2025, 7, 1>>
      [] t = "2025-07-03" -> <<2025, 7, 3>>
      [] t = "1" -> <<1>>
      [] t = "2" -> <<2>>
      [] t = "0" -> <<0>>
      [] t = "1st" -> <<1>>
      [] OTHER -> <<>>

\* TRUE when the token ends in a letter, so that its last digit run is not
\* followed by a word boundary.
EndsInLetter(t) == t \in WordTokens

\* The keywords of the source's lists that occur inside a token (Python's
\* `keyword in text`, restricted to one token).
KeywordsInToken(t) ==
    CASE t = "book" -> {"book"}
      [] t = "booking" -> {"book", "booking"}
      [] t = "room" -> {"room"}
      [] t = "reschedule" -> {"reschedule"}
      [] t = "price" -> {"price"}
      [] OTHER -> {}

KeywordIn(keyword, user_message) ==
    \E i \in 1..Len(user_message) : keyword \in KeywordsInToken(Lower(user_message[i]))

\* ---------------------------------------------------------------- inputs
Messages ==
    { <<"I", "want", "to", "book", "a", "room">>,
      <<"2025-07-01">>,
      <<"2025-07-03">>,
      <<"deluxe">>,
      <<"2">>,
      <<"1">>,
      <<"reschedule">>,
      <<"reschedule", "booking">>,
      <<"july", "1st">>,
      <<"2025-07-01", "2025-07-03", "deluxe", "2", "guests">> }

\* ------------------------------------------------------------- HOTEL_DATA
RoomTypes == {"standard", "deluxe", "suite"}

Price(room_type) ==
    CASE room_type = "standard" -> 5000
      [] room_type = "deluxe" -> 8000
      [] room_type = "suite" -> 12000

\* ------------------------------------------------------ extract_booking_info
\* re.findall(r'\d{4}-\d{2}-\d{2}', user_message)
DateMatches(user_message) == SelectSeq(user_message, LAMBDA t : t \in DateTokens)

\* user_message_lower.split()
UserWords(user_message) == [i \in 1..Len(user_message) |-> Lower(user_message[i])]

\* Words of the message that are keys of HOTEL_DATA["room_types"], in order.
RoomWords(user_message) == SelectSeq(UserWords(user_message), LAMBDA w : w \in RoomTypes)

\* Tokens with which the alternative (?:guests?|people|persons?) can start.
GuestWords == {"guest", "guests", "people", "person", "persons"}

\* Positions where r'(\d+)\s*(?:guests?|people|persons?)' matches: a token
\* ending in a digit run, followed by a guest word.
GuestMatchPositions(user_message) ==
    { i \in 1..(Len(user_message) - 1) :
        /\ DigitRuns(user_message[i]) # <<>>
        /\ ~EndsInLetter(user_message[i])
        /\ Lower(user_message[i + 1]) \in GuestWords }

LastOf(s) == s[Len(s)]

Min(S) == CHOOSE x \in S : \A y \in S : x <= y

\* The digit runs r'\b(\d+)\b' finds in one token.
StandaloneNumbers(t) == IF EndsInLetter(t) THEN <<>> ELSE DigitRuns(t)

RECURSIVE NumberMatches(_)
\* re.findall(r'\b(\d+)\b', user_message)
NumberMatches(user_message) ==
    IF user_message = <<>> THEN <<>>
    ELSE StandaloneNumbers(Head(user_message)) \o NumberMatches(Tail(user_message))

\* The standalone numbers in the range the source accepts as a guest count.
ReasonableCounts(user_message) ==
    SelectSeq(NumberMatches(user_message), LAMBDA n : 1 <= n /\ n <= 10)

extract_booking_info(user_message) ==
    LET date_matches == DateMatches(user_message)
        room_words == RoomWords(user_message)
        guest_match == GuestMatchPositions(user_message)
        counts == ReasonableCounts(user_message)
        info1 == IF Len(date_matches) >= 1
                 THEN Put(EmptyDict, "check_in_date", date_matches[1])
                 ELSE EmptyDict
        info2 == IF Len(date_matches) >= 2
                 THEN Put(info1, "check_out_date", date_matches[2])
                 ELSE info1
        info3 == IF Len(room_words) >= 1
                 THEN Put(info2, "room_type", room_words[1])
                 ELSE info2
    IN  IF guest_match # {}
        THEN Put(info3, "num_guests", LastOf(DigitRuns(user_message[Min(guest_match)])))
        ELSE IF Len(counts) >= 1
             THEN Put(info3, "num_guests", counts[1])
             ELSE info3

\* ------------------------------------------------------------ reply texts
CheckInPrompt == [text |-> "Please provide check-in date (YYYY-MM-DD)."]

CheckOutPrompt == [text |-> "Please provide check-out date (YYYY-MM-DD)."]

RoomTypePrompt == [text |-> "Please choose a room type: standard, deluxe, suite."]

GuestsPrompt == [text |-> "How many guests?"]

ReservationIdPrompt == [text |-> "Please provide your reservation ID."]

NewCheckInPrompt == [text |-> "Please provide new check-in date (YYYY-MM-DD)."]

NewCheckOutPrompt == [text |-> "Please provide new check-out date (YYYY-MM-DD)."]

ValidIdPrompt == [text |-> "Please enter a valid reservation ID (numbers only)."]

NewCheckInFormatPrompt == [text |-> "Please provide the new check-in date in YYYY-MM-DD format."]

NewCheckOutFormatPrompt == [text |-> "Please provide the new check-out date in YYYY-MM-DD format."]

UpdatedMsg == [text |-> "Reservation updated successfully! Your new dates have been confirmed."]

NotFoundMsg == [text |-> "Reservation ID not found. Please check your reservation ID and try again."]

\* The f-string of handle_booking: the fixed text and the interpolated fields.
ConfirmationMsg(reservation) ==
    [text |-> "Booking confirmed! Your reservation ID is:",
     reservation_id |-> reservation["id"],
     check_in |-> reservation["check_in_date"],
     check_out |-> reservation["check_out_date"],
     room |-> reservation["room_type"],
     guests |-> reservation["num_guests"],
     total |-> reservation["total_price"]]

AIMessage(content) == [role |-> "ai", content |-> content]

HumanMessage(content) == [role |-> "human", content |-> content]

\* ------------------------------------------------------------ agent state
\* new_agent_state(); the "reservation_id" entry of the state is written by
\* handle_booking and never read, it is not carried.
new_agent_state ==
    [messages |-> <<>>, context |-> EmptyDict, intent |-> "", conversation_history |-> 0]

\* ctx.get(k) is truthy
Truthy(ctx, k) == k \in DOMAIN ctx /\ ctx[k] = TRUE

\* ------------------------------------------------------------ detect_intent
booking_keywords == {"book", "booking", "reserve", "reservation", "room", "stay", "check in"}

rescheduling_keywords == {"reschedule", "change", "modify", "update", "cancel"}

\* The keyword tests placed before the tests of the flow flags.
detect_intent_KeywordsFirst(state) ==
    LET user_message == LastOf(state.messages).content
        ctx == state.context
    IN  IF /\ ~Truthy(ctx, "rescheduling_in_progress")
           /\ \E keyword \in booking_keywords : KeywordIn(keyword, user_message)
        THEN [state EXCEPT !.intent = "booking",
                           !.context = Put(ctx, "booking_in_progress", TRUE)]
        ELSE IF /\ ~Truthy(ctx, "rescheduling_in_progress")
                /\ \E keyword \in rescheduling_keywords : KeywordIn(keyword, user_message)
        THEN [state EXCEPT !.intent = "rescheduling",
                           !.context = Put(ctx, "rescheduling_in_progress", TRUE)]
        ELSE IF Truthy(ctx, "booking_in_progress")
        THEN [state EXCEPT !.intent = "booking"]
        ELSE IF Truthy(ctx, "rescheduling_in_progress")
        THEN [state EXCEPT !.intent = "rescheduling"]
        ELSE [state EXCEPT !.intent = "question"]

\* The two keyword tests in the other order.
detect_intent_ReschedulingFirst(state) ==
    LET user_message == LastOf(state.messages).content
        ctx == state.context
    IN  IF Truthy(ctx, "booking_in_progress")
        THEN [state EXCEPT !.intent = "booking"]
        ELSE IF Truthy(ctx, "rescheduling_in_progress")
        THEN [state EXCEPT !.intent = "rescheduling"]
        ELSE IF \E keyword \in rescheduling_keywords : KeywordIn(keyword, user_message)
        THEN [state EXCEPT !.intent = "rescheduling",
                           !.context = Put(ctx, "rescheduling_in_progress", TRUE)]
        ELSE IF \E keyword \in booking_keywords : KeywordIn(keyword, user_message)
        THEN [state EXCEPT !.intent = "booking",
                           !.context = Put(ctx, "booking_in_progress", TRUE)]
        ELSE [state EXCEPT !.intent = "question"]

\* The fall-through branch marks a booking flow as started.
detect_intent_QuestionSetsFlag(state) ==
    LET user_message == LastOf(state.messages).content
        ctx == state.context
    IN  IF Truthy(ctx, "booking_in_progress")
        THEN [state EXCEPT !.intent = "booking"]
        ELSE IF Truthy(ctx, "rescheduling_in_progress")
        THEN [state EXCEPT !.intent = "rescheduling"]
        ELSE IF \E keyword \in booking_keywords : KeywordIn(keyword, user_message)
        THEN [state EXCEPT !.intent = "booking",
                           !.context = Put(ctx, "booking_in_progress", TRUE)]
        ELSE IF \E keyword \in rescheduling_keywords : KeywordIn(keyword, user_message)
        THEN [state EXCEPT !.intent = "rescheduling",
                           !.context = Put(ctx, "rescheduling_in_progress", TRUE)]
        ELSE [state EXCEPT !.intent = "question",
                           !.context = Put(ctx, "booking_in_progress", TRUE)]

detect_intent(state) ==
    LET user_message == LastOf(state.messages).content
        ctx == state.context
    IN  IF Truthy(ctx, "booking_in_progress")
        THEN [state EXCEPT !.intent = "booking"]
        ELSE IF Truthy(ctx, "rescheduling_in_progress")
        THEN [state EXCEPT !.intent = "rescheduling"]
        ELSE IF \E keyword \in booking_keywords : KeywordIn(keyword, user_message)
        THEN [state EXCEPT !.intent = "booking",
                           !.context = Put(ctx, "booking_in_progress", TRUE)]
        ELSE IF \E keyword \in rescheduling_keywords : KeywordIn(keyword, user_message)
        THEN [state EXCEPT !.intent = "rescheduling",
                           !.context = Put(ctx, "rescheduling_in_progress", TRUE)]
        ELSE [state EXCEPT !.intent = "question"]

\* ------------------------------------------------------------ process_input
\* The test `key not in ctx` left out: an extracted value replaces a stored one.
MergeMissing_Overwrite(ctx, extracted_info) ==
    [k \in (DOMAIN ctx) \cup (DOMAIN extracted_info) |->
        IF k \in DOMAIN extracted_info THEN extracted_info[k] ELSE ctx[k]]

\* for key, value in extracted_info.items(): if key not in ctx: ctx[key] = value
MergeMissing(ctx, extracted_info) ==
    [k \in (DOMAIN ctx) \cup (DOMAIN extracted_info) |->
        IF k \in DOMAIN ctx THEN ctx[k] ELSE extracted_info[k]]

Say(state, content) == [state EXCEPT !.messages = Append(@, AIMessage(content))]

\* user_message.isdigit(): one token, all digits
IsDigit(user_message) == Len(user_message) = 1 /\ user_message[1] \in NumberTokens

\* int(user_message)
IntOf(user_message) == DigitRuns(user_message[1])[1]

process_input(state) ==
    LET user_message == LastOf(state.messages).content
        ctx == state.context
    IN  IF state.intent = "booking"
        THEN LET merged == MergeMissing(ctx, extract_booking_info(user_message))
                 st == [state EXCEPT !.context = merged]
             IN  IF "check_in_date" \notin DOMAIN merged THEN Say(st, CheckInPrompt)
                 ELSE IF "check_out_date" \notin DOMAIN merged THEN Say(st, CheckOutPrompt)
                 ELSE IF "room_type" \notin DOMAIN merged THEN Say(st, RoomTypePrompt)
                 ELSE IF "num_guests" \notin DOMAIN merged THEN Say(st, GuestsPrompt)
                 ELSE st
        ELSE IF state.intent = "rescheduling"
        THEN IF "reservation_id" \notin DOMAIN ctx
             THEN IF IsDigit(user_message)
                  THEN [state EXCEPT !.context = Put(ctx, "reservation_id", IntOf(user_message))]
                  ELSE Say(state, ValidIdPrompt)
             ELSE IF "new_check_in_date" \notin DOMAIN ctx
             THEN IF DateMatches(user_message) # <<>>
                  THEN Say([state EXCEPT !.context =
                                Put(ctx, "new_check_in_date", DateMatches(user_message)[1])],
                           NewCheckOutPrompt)
                  ELSE Say(state, NewCheckInFormatPrompt)
             ELSE IF "new_check_out_date" \notin DOMAIN ctx
             THEN IF DateMatches(user_message) # <<>>
                  THEN [state EXCEPT !.context =
                            Put(ctx, "new_check_out_date", DateMatches(user_message)[1])]
                  ELSE Say(state, NewCheckOutFormatPrompt)
             ELSE state
        ELSE state

\* ------------------------------------------------------- reservation store
\* A JSON file as one call sees it: its content as json.load parses it,
\* whether reading it succeeds in this call, and how writing it ends: "ok",
\* "refused" (open raises, the file is as before) or "torn" (json.dump raises
\* after open truncated the file, which then no longer parses).
File(content, read_ok, write) ==
    [content |-> content, read_ok |-> read_ok, write |-> write]

WriteOutcome(fault, refused, torn) ==
    IF fault = refused THEN "refused" ELSE IF fault = torn THEN "torn" ELSE "ok"

\* load_reservations(): the parsed content of reservations.json, the empty
\* list when the file is missing or the read raises.
load_reservations(file) == IF file.read_ok THEN file.content ELSE <<>>

\* The records that the file does not hold yet are added to the file's list.
save_reservations_MergesWithFile(file, reservations_list) ==
    [file EXCEPT !.content =
        @ \o SelectSeq(reservations_list,
                       LAMBDA r : \A i \in 1..Len(file.content) : file.content[i] # r)]

\* save_reservations(): the file afterwards; a write that raises is swallowed.
save_reservations(file, reservations_list) ==
    [file EXCEPT !.content = IF file.write = "ok" THEN reservations_list
                             ELSE IF file.write = "refused" THEN @
                             ELSE <<>>]

RECURSIVE MaxId(_)
\* max([r["id"] for r in reservations], default=0)
MaxId(reservations_list) ==
    IF reservations_list = <<>> THEN 0
    ELSE LET rest == MaxId(Tail(reservations_list))
             id == Head(reservations_list)["id"]
         IN  IF id > rest THEN id ELSE rest

\* The increment left out.
NextReservationId_NoIncrement(reservations_list) ==
    IF reservations_list # <<>> THEN MaxId(reservations_list) ELSE 1

NextReservationId(reservations_list) ==
    IF reservations_list # <<>> THEN MaxId(reservations_list) + 1 ELSE 1

\* ------------------------------------------------------------ handle_booking
\* The guest count is not among the keys popped.
BookingSlots_WithoutGuests == {"check_in_date", "check_out_date", "room_type"}

BookingSlots == {"check_in_date", "check_out_date", "room_type", "num_guests"}

\* Result: the agent state and the content of reservations.json afterwards.
handle_booking(state, file, clock) ==
    LET ctx == state.context
    IN  IF "check_in_date" \notin DOMAIN ctx
        THEN [state |-> Say(state, CheckInPrompt), file |-> file]
        ELSE IF "check_out_date" \notin DOMAIN ctx
        THEN [state |-> Say(state, CheckOutPrompt), file |-> file]
        ELSE IF "room_type" \notin DOMAIN ctx
        THEN [state |-> Say(state, RoomTypePrompt), file |-> file]
        ELSE IF "num_guests" \notin DOMAIN ctx
        THEN [state |-> Say(state, GuestsPrompt), file |-> file]
        ELSE LET reservations_list == load_reservations(file)
                 reservation ==
                     [id |-> NextReservationId(reservations_list),
                      user_id |-> ctx["user_id"],
                      check_in_date |-> ctx["check_in_date"],
                      check_out_date |-> ctx["check_out_date"],
                      room_type |-> ctx["room_type"],
                      num_guests |-> ctx["num_guests"],
                      total_price |-> Price(ctx["room_type"]),
                      created_at |-> clock]
                 cleared == Pop(ctx, BookingSlots \cup {"booking_in_progress"})
             IN  [state |-> Say([state EXCEPT !.context = cleared],
                                ConfirmationMsg(reservation)),
                  file |-> save_reservations(file, Append(reservations_list, reservation))]

\* -------------------------------------------------------- handle_rescheduling
ReschedulingSlots == {"reservation_id", "new_check_in_date", "new_check_out_date"}

\* Positions of the records the loop's test r["id"] == ctx["reservation_id"] accepts.
MatchingPositions(reservations_list, reservation_id) ==
    { i \in 1..Len(reservations_list) : reservations_list[i]["id"] = reservation_id }

\* The time stamp written under the key of the creation time.
UpdateFirstMatch_StampsCreatedAt(reservations_list, ctx, clock) ==
    LET first == Min(MatchingPositions(reservations_list, ctx["reservation_id"]))
    IN  [reservations_list EXCEPT ![first] =
            Put(Put(Put(@, "check_in_date", ctx["new_check_in_date"]),
                    "check_out_date", ctx["new_check_out_date"]),
                "created_at", clock)]

\* The loop body applied to the first matching record, then break.
UpdateFirstMatch(reservations_list, ctx, clock) ==
    LET first == Min(MatchingPositions(reservations_list, ctx["reservation_id"]))
    IN  [reservations_list EXCEPT ![first] =
            Put(Put(Put(@, "check_in_date", ctx["new_check_in_date"]),
                    "check_out_date", ctx["new_check_out_date"]),
                "updated_at", clock)]

handle_rescheduling(state, file, clock) ==
    LET ctx == state.context
    IN  IF "reservation_id" \notin DOMAIN ctx
        THEN [state |-> Say(state, ReservationIdPrompt), file |-> file]
        ELSE IF "new_check_in_date" \notin DOMAIN ctx
        THEN [state |-> Say(state, NewCheckInPrompt), file |-> file]
        ELSE IF "new_check_out_date" \notin DOMAIN ctx
        THEN [state |-> Say(state, NewCheckOutPrompt), file |-> file]
        ELSE LET reservations_list == load_reservations(file)
                 updated == MatchingPositions(reservations_list, ctx["reservation_id"]) # {}
             IN  IF updated
                 THEN [state |-> Say([state EXCEPT !.context = Pop(ctx, ReschedulingSlots)],
                                     UpdatedMsg),
                       file |-> save_reservations(file,
                                    UpdateFirstMatch(reservations_list, ctx, clock))]
                 ELSE [state |-> Say(state, NotFoundMsg), file |-> file]

\* ----------------------------------------------------------- handle_question
AmenitiesAnswer == [text |-> "Sunset Resort Amenities"]

RatesAnswer == [text |-> "Room Rates at Sunset Resort"]

RoomTypesAnswer == [text |-> "Our Room Types"]

LocationAnswer == [text |-> "Sunset Resort Location"]

TimesAnswer == [text |-> "Check-in & Check-out Times"]

CancellationAnswer == [text |-> "Cancellation Policy"]

\* The content llm.invoke returns.
LlmAnswer == [text |-> "<completion>"]

AnyIn(words, user_message) == \E word \in words : KeywordIn(word, user_message)

\* llm_ok: llm.invoke returns; otherwise it raises and so does the handler.
handle_question(state, file, clock, llm_ok) ==
    LET user_message == LastOf(state.messages).content
        response_content ==
            IF AnyIn({"amenities", "facilities", "what do you have", "what's included"}, user_message)
            THEN AmenitiesAnswer
            ELSE IF AnyIn({"price", "cost", "rate", "how much", "fee"}, user_message)
            THEN RatesAnswer
            ELSE IF AnyIn({"room", "rooms", "types", "accommodation"}, user_message)
            THEN RoomTypesAnswer
            ELSE IF AnyIn({"location", "where", "address", "goa"}, user_message)
            THEN LocationAnswer
            ELSE IF AnyIn({"check in", "checkin", "arrival", "time"}, user_message)
            THEN TimesAnswer
            ELSE IF AnyIn({"cancel", "cancellation", "policy"}, user_message)
            THEN CancellationAnswer
            ELSE LlmAnswer
    IN  IF response_content = LlmAnswer /\ ~llm_ok
        THEN [state |-> state, file |-> file, raised |-> TRUE]
        ELSE [state |-> Say(state, response_content), file |-> file, raised |-> FALSE]

\* ------------------------------------------------------------------ graph
\* app.invoke: detect_intent -> process_input -> the handler of state["intent"]
\* A handler that returned.
Returned(handled) == [state |-> handled.state, file |-> handled.file, raised |-> FALSE]

\* The conditional edges after process_input.
Route(processed, file, clock, llm_ok) ==
    IF processed.intent = "booking"
    THEN Returned(handle_booking(processed, file, clock))
    ELSE IF processed.intent = "rescheduling"
    THEN Returned(handle_rescheduling(processed, file, clock))
    ELSE handle_question(processed, file, clock, llm_ok)

app_invoke(state, file, clock, llm_ok) ==
    Route(process_input(detect_intent(state)), file, clock, llm_ok)

\* ------------------------------------------------------------ session store
\* load_chat_sessions(): the parsed content of chat_sessions.json, the empty
\* mapping when the file is missing or the read raises.
load_chat_sessions(file) == IF file.read_ok THEN file.content ELSE EmptyDict

\* save_chat_sessions(): the file afterwards; a write that raises is swallowed.
save_chat_sessions(file, sessions) ==
    [file EXCEPT !.content = IF file.write = "ok" THEN sessions
                             ELSE IF file.write = "refused" THEN @
                             ELSE EmptyDict]

\* The session looked up without the user id: any stored session is taken.
load_agent_state_AnySession(sessions_file, user_id) ==
    LET sessions == load_chat_sessions(sessions_file)
        any == CHOOSE v \in DOMAIN sessions : TRUE
    IN  IF DOMAIN sessions # {}
        THEN [new_agent_state EXCEPT
                 !.context = sessions[any].context,
                 !.conversation_history = sessions[any].conversation_history]
        ELSE new_agent_state

load_agent_state(sessions_file, user_id) ==
    LET sessions == load_chat_sessions(sessions_file)
    IN  IF user_id \in DOMAIN sessions
        THEN [new_agent_state EXCEPT
                 !.context = sessions[user_id].context,
                 !.conversation_history = sessions[user_id].conversation_history]
        ELSE new_agent_state

\* The entry save_agent_state stores for a user; conversation_history is
\* carried as its length, last_updated is not carried.
SessionEntry(state) ==
    [context |-> state.context, conversation_history |-> state.conversation_history]

\* chat_sessions.json after save_agent_state(user_id, state).
save_agent_state(sessions_file, user_id, state) ==
    save_chat_sessions(sessions_file,
                       Put(load_chat_sessions(sessions_file), user_id, SessionEntry(state)))

\* ------------------------------------------------------- handle_instagram_dm
\* What can fail in one turn: the read or the write of reservations.json, the
\* read of chat_sessions.json in load_agent_state, its read or its write in
\* save_agent_state, and the call of the text-generation service.
Faults ==
    {"reservations_read", "reservations_write", "reservations_torn",
     "sessions_read", "sessions_reread", "sessions_write", "sessions_torn", "llm"}

ErrorMsg == [text |-> "Sorry, something went wrong. Please try again."]

NoReply == [text |-> ""]

\* The try block after app.invoke: the reply is the last message, the
\* history gets an entry, the session is saved.  Result: the contents of the
\* two files afterwards, the intent, the reply, and whether an exception left
\* the block (then nothing was saved).
AfterInvoke(result, sessions_file, file, user_id, fault) ==
    IF result.raised
    THEN [sessions |-> sessions_file, file |-> file, intent |-> result.state.intent,
          response |-> NoReply, raised |-> TRUE]
    ELSE [sessions |->
              save_agent_state(
                  File(sessions_file, fault # "sessions_reread",
                       WriteOutcome(fault, "sessions_write", "sessions_torn")),
                  user_id,
                  [result.state EXCEPT !.conversation_history = @ + 1]).content,
          file |-> result.file.content,
          intent |-> result.state.intent,
          response |-> LastOf(result.state.messages).content,
          raised |-> FALSE]

\* The state handed to app.invoke: the loaded one with user_id in the context
\* and the message appended.
Incoming(loaded, user_id, message) ==
    [loaded EXCEPT !.context = Put(@, "user_id", user_id),
                   !.messages = Append(@, HumanMessage(message))]

\* The body of the try block, with the files as the turn finds them.
TryBody(sessions_file, file, clock, user_id, message, fault) ==
    AfterInvoke(
        app_invoke(
            Incoming(load_agent_state(File(sessions_file, fault # "sessions_read", "ok"),
                                      user_id),
                     user_id, message),
            File(file, fault # "reservations_read",
                 WriteOutcome(fault, "reservations_write", "reservations_torn")),
            clock, fault # "llm"),
        sessions_file, file, user_id, fault)

\* The handler falls through to the caller.
ExceptClause_Reraises(attempt) == attempt

\* except Exception: the apology is returned instead.
ExceptClause(attempt) ==
    IF attempt.raised
    THEN [attempt EXCEPT !.response = ErrorMsg, !.raised = FALSE]
    ELSE attempt

\* One whole call, from load_agent_state to the return.
TurnResult(sessions_file, file, clock, user_id, message, fault) ==
    ExceptClause(TryBody(sessions_file, file, clock, user_id, message, fault))

\* -------------------------------------------------------- history variables
\* The slots a message gives from the user's side, when the slots in
\* `supplied` were given before: dates answer check-in then check-out, a
\* room-type word answers the room prompt, a number answers the guest prompt.
SuppliedAfter(supplied, message) ==
    LET nd == Len(DateMatches(message))
    IN  supplied
        \cup (IF nd = 0 THEN {}
              ELSE IF "check_in_date" \in supplied THEN {"check_out_date"}
              ELSE IF nd >= 2 THEN {"check_in_date", "check_out_date"}
              ELSE {"check_in_date"})
        \cup (IF RoomWords(message) # <<>> THEN {"room_type"} ELSE {})
        \cup (IF \E i \in 1..Len(message) : message[i] \in NumberTokens
              THEN {"num_guests"} ELSE {})

SavedContext(user_id) ==
    IF user_id \in DOMAIN chat_sessions THEN chat_sessions[user_id].context ELSE EmptyDict

NoFlow == [supplied |-> {}, appended |-> 0]

\* The flow record of user_id after a turn with intent and file as given.
FlowAfter(user_id, message, intent, file) ==
    LET started == "booking_in_progress" \notin DOMAIN SavedContext(user_id)
        before == IF started THEN NoFlow ELSE flow[user_id]
    IN  IF intent = "booking"
        THEN [supplied |-> SuppliedAfter(before.supplied, message),
              appended |-> before.appended + (Len(file) - Len(reservations))]
        ELSE flow[user_id]

\* The kinds of message of the dialogue "start, check-in date, check-out date,
\* room type, guest count", one value per message.
FollowsScript(step, message) ==
    CASE step = 1 -> /\ \E keyword \in booking_keywords : KeywordIn(keyword, message)
                     /\ SuppliedAfter({}, message) = {}
      [] step = 2 -> Len(message) = 1 /\ message[1] \in DateTokens
      [] step = 3 -> Len(message) = 1 /\ message[1] \in DateTokens
      [] step = 4 -> Len(message) = 1 /\ Lower(message[1]) \in RoomTypes
      [] step = 5 -> Len(message) = 1 /\ message[1] \in NumberTokens /\ IntOf(message) >= 1
      [] OTHER -> FALSE

OffScript == [user |-> "", messages |-> <<>>, on |-> FALSE]

ScriptAfter(user_id, message) ==
    IF /\ script.on
       /\ script.user \in {"", user_id}
       /\ FollowsScript(Len(script.messages) + 1, message)
    THEN [user |-> user_id, messages |-> Append(script.messages, message), on |-> TRUE]
    ELSE OffScript

\* The entry of a user who has no session yet.
NoEntry == SessionEntry(new_agent_state)

\* A user's call that has not started: nothing loaded, nothing to write.
Idle ==
    [pc |-> "idle", base |-> <<>>, list |-> <<>>, entry |-> NoEntry,
     sessions |-> EmptyDict, response |-> NoReply]

\* One whole call as one step, with the given failure ("none": nothing fails).
Turn(user_id, message, fault) ==
    /\ now < MaxTurns
    /\ \E t \in {TurnResult(chat_sessions, reservations, now + 1, user_id, message, fault)} :
           /\ chat_sessions' = t.sessions
           /\ reservations' = t.file
           /\ last' = [user |-> user_id, message |-> message, intent |-> t.intent,
                       response |-> t.response, fault |-> fault, raised |-> t.raised]
           /\ flow' = [flow EXCEPT ![user_id] = FlowAfter(user_id, message, t.intent, t.file)]
    /\ script' = ScriptAfter(user_id, message)
    /\ now' = now + 1
    /\ UNCHANGED proc

handle_instagram_dm(user_id, message) ==
    /\ Turn(user_id, message, "none")
    /\ UNCHANGED faults

NoTurn ==
    [user |-> "", message |-> <<>>, intent |-> "", response |-> NoReply,
     fault |-> "none", raised |-> FALSE]

Init ==
    /\ reservations = <<>>
    /\ chat_sessions = EmptyDict
    /\ now = 0
    /\ last = NoTurn
    /\ flow = [u \in Users |-> NoFlow]
    /\ script = [user |-> "", messages |-> <<>>, on |-> TRUE]
    /\ faults = 0
    /\ proc = [u \in Users |-> Idle]

Next == \E user_id \in Users, message \in Messages : handle_instagram_dm(user_id, message)

\* ------------------------------------------------------- turns with failures
MaxFaults == 1

MaxFailTurns == 4

\* One whole call in which one storage or service call fails.
FaultyTurn(user_id, message, fault) ==
    /\ now < MaxFailTurns
    /\ faults < MaxFaults
    /\ Turn(user_id, message, fault)
    /\ faults' = faults + 1

FailMessages ==
    { <<"I", "want", "to", "book", "a", "room">>,
      <<"2025-07-01", "2025-07-03", "deluxe", "2", "guests">>,
      <<"hello">>,
      <<"price">>,
      <<"reschedule">> }

\* One whole call in which nothing fails.
SoundTurn(user_id, message) ==
    /\ now < MaxFailTurns
    /\ handle_instagram_dm(user_id, message)

NextFail ==
    \E user_id \in Users, message \in FailMessages :
        \/ SoundTurn(user_id, message)
        \/ \E fault \in Faults : FaultyTurn(user_id, message, fault)

SpecFail == Init /\ [][NextFail]_vars

Spec == Init /\ [][Next]_vars

\* ================================================================= claims
ConfirmationText == "Booking confirmed! Your reservation ID is:"

FlowFlags == {"booking_in_progress", "rescheduling_in_progress"}

\* The context saved for the user of the turn just taken, before and after it.
ContextBefore == SavedContext(last'.user)

ContextAfter == chat_sessions'[last'.user].context

\* C1: a booking flow that was given all four slots (one per message in
\* prompt order, or several per message) has appended exactly one
\* reservation and is no longer in progress.
C1_BookingCompletesOnce ==
    \A u \in Users :
        flow[u].supplied = BookingSlots
            => /\ flow[u].appended = 1
               /\ "booking_in_progress" \notin DOMAIN SavedContext(u)

\* C2: after the dialogue "booking start, check-in date, check-out date, room
\* type, guest count" from empty stores, one value per message, the reply is
\* the confirmation with a new id and the catalog price, and the store holds
\* exactly one record with the values given at the prompts.
C2_ScriptedBookingConfirms ==
    (script.on /\ Len(script.messages) = 5)
        => LET m == script.messages
           IN  /\ last.response.text = ConfirmationText
               /\ last.response.reservation_id = 1
               /\ last.response.total = Price(Lower(m[4][1]))
               /\ Len(reservations) = 1
               /\ reservations[1]["check_in_date"] = m[2][1]
               /\ reservations[1]["check_out_date"] = m[3][1]
               /\ reservations[1]["room_type"] = Lower(m[4][1])
               /\ reservations[1]["num_guests"] = IntOf(m[5])

\* C3: the ids of the stored reservations, in append order, are 1, 2, ..., n.
C3_IdsAreOneToN ==
    \A i \in 1..Len(reservations) : reservations[i]["id"] = i

C3_Witness ==
    /\ Len(reservations) >= 2
    /\ reservations[2]["id"] = 2

\* C4: a rescheduling turn that answers not-found leaves the store unchanged
\* and clears the three rescheduling slots from the saved context.
C4_NotFoundClearsSlots ==
    [][last'.response = NotFoundMsg
          => /\ reservations' = reservations
             /\ (DOMAIN ContextAfter) \cap ReschedulingSlots = {}]_vars

\* C5: after a turn that confirms a booking or reports a successful
\* rescheduling, the saved session has no flow flag set.
C5_CompletionClearsFlow ==
    last.response.text \in {ConfirmationText, UpdatedMsg.text}
        => (DOMAIN SavedContext(last.user)) \cap FlowFlags = {}

NoDateAtCheckInPrompt ==
    /\ now' = now + 1
    /\ "booking_in_progress" \in DOMAIN ContextBefore
    /\ "check_in_date" \notin DOMAIN ContextBefore
    /\ DateMatches(last'.message) = <<>>

QuestionAnswers ==
    {AmenitiesAnswer, RatesAnswer, RoomTypesAnswer, LocationAnswer, TimesAnswer,
     CancellationAnswer, LlmAnswer}

\* C8: a turn of a user whose booking (rescheduling) flow is in progress is
\* classified booking (rescheduling) whatever the message says; it does not
\* set the other flow's flag and is not answered by the question handler.
C8_StickyIntent ==
    [][now' = now + 1
          => /\ "booking_in_progress" \in DOMAIN ContextBefore
                    => /\ last'.intent = "booking"
                       /\ "rescheduling_in_progress" \notin DOMAIN ContextAfter
                       /\ last'.response \notin QuestionAnswers
             /\ "rescheduling_in_progress" \in DOMAIN ContextBefore
                    => /\ last'.intent = "rescheduling"
                       /\ "booking_in_progress" \notin DOMAIN ContextAfter
                       /\ last'.response \notin QuestionAnswers]_vars

\* A rescheduling keyword sent while the booking flow is in progress.
C8_Witness ==
    /\ last.message = <<"reschedule">>
    /\ last.intent = "booking"
    /\ last.response = CheckInPrompt
    /\ "booking_in_progress" \in DOMAIN SavedContext(last.user)

HasBookingKeyword(message) == \E keyword \in booking_keywords : KeywordIn(keyword, message)

HasReschedulingKeyword(message) ==
    \E keyword \in rescheduling_keywords : KeywordIn(keyword, message)

\* C9: with no flow active, a message with a booking keyword and a
\* rescheduling keyword is classified booking; the booking flag is set (until
\* the flow completes) and the rescheduling flag is not.
C9_BothKeywordsIsBooking ==
    [][(/\ now' = now + 1
        /\ (DOMAIN ContextBefore) \cap FlowFlags = {}
        /\ HasBookingKeyword(last'.message)
        /\ HasReschedulingKeyword(last'.message))
          => /\ last'.intent = "booking"
             /\ "rescheduling_in_progress" \notin DOMAIN ContextAfter
             /\ \/ "booking_in_progress" \in DOMAIN ContextAfter
                \/ last'.response.text = ConfirmationText]_vars

C9_Witness ==
    /\ now = 1
    /\ last.message = <<"reschedule", "booking">>
    /\ last.intent = "booking"
    /\ DOMAIN SavedContext(last.user) = {"user_id", "booking_in_progress"}

\* The numbers written in a message.
NumbersIn(message) ==
    UNION { { DigitRuns(message[i])[j] : j \in 1..Len(DigitRuns(message[i])) } :
            i \in 1..Len(message) }

\* The words written in a message, lower-cased.
WordsIn(message) == { Lower(message[i]) : i \in 1..Len(message) }

\* TRUE when the value v under key k is the user's id, a flag, a value the
\* user's own context held before the turn, or one written in the message.
OwnValue(k, v, user_id, message, before) ==
    \/ k \in DOMAIN before /\ before[k] = v
    \/ k = "user_id" /\ v = user_id
    \/ k \in FlowFlags /\ v = TRUE
    \/ k \in {"num_guests", "reservation_id"} /\ v \in NumbersIn(message)
    \/ /\ k \in {"check_in_date", "check_out_date", "room_type",
                 "new_check_in_date", "new_check_out_date"}
       /\ v \in WordsIn(message)

\* C10: a turn of user u leaves every other user's session as it was; every
\* value in u's saved context is u's id, a flag, a value u's context already
\* held or a value of u's message; a reservation appended by the turn carries
\* u's id and slot values of that kind only.
C10_SessionIsolation ==
    [][now' = now + 1
          => /\ DOMAIN chat_sessions' = (DOMAIN chat_sessions) \cup {last'.user}
             /\ \A v \in (DOMAIN chat_sessions) \ {last'.user} :
                    chat_sessions'[v] = chat_sessions[v]
             /\ \A k \in DOMAIN ContextAfter :
                    OwnValue(k, ContextAfter[k], last'.user, last'.message, ContextBefore)
             /\ Len(reservations') > Len(reservations)
                    => /\ Len(reservations') = Len(reservations) + 1
                       /\ LastOf(reservations')["user_id"] = last'.user
                       /\ \A k \in BookingSlots :
                              OwnValue(k, LastOf(reservations')[k], last'.user,
                                       last'.message, ContextBefore)]_vars

\* Both users are in a booking flow and hold different check-in dates.
C10_Witness ==
    /\ DOMAIN chat_sessions = Users
    /\ "check_in_date" \in DOMAIN chat_sessions["A"].context
    /\ "check_in_date" \in DOMAIN chat_sessions["B"].context
    /\ chat_sessions["A"].context["check_in_date"] # chat_sessions["B"].context["check_in_date"]

\* C16: a slot that the saved context holds keeps its value through every
\* turn of that user; it leaves the context only in a turn that confirms a
\* booking or reports a successful rescheduling.
C16_FirstWriteWins ==
    [][now' = now + 1
          => \A k \in (DOMAIN ContextBefore) \cap (BookingSlots \cup ReschedulingSlots) :
                 IF k \in DOMAIN ContextAfter
                 THEN ContextAfter[k] = ContextBefore[k]
                 ELSE last'.response.text \in {ConfirmationText, UpdatedMsg.text}]_vars

\* A booking turn whose message carries another date than the check-in date held.
C16_Witness ==
    /\ last.message = <<"2025-07-01">>
    /\ last.intent = "booking"
    /\ "check_in_date" \in DOMAIN SavedContext(last.user)
    /\ SavedContext(last.user)["check_in_date"] = "2025-07-03"

\* C17: in a rescheduling flow, a message that is malformed for the slot
\* now required leaves the context unchanged and is answered with the
\* correction prompt of process_input for that slot.
C17_MalformedGetsCorrectionPrompt ==
    [][(now' = now + 1 /\ "rescheduling_in_progress" \in DOMAIN ContextBefore)
          => LET keys == DOMAIN ContextBefore
                 expected ==
                     IF "reservation_id" \notin keys
                     THEN IF IsDigit(last'.message) THEN {} ELSE {ValidIdPrompt}
                     ELSE IF "new_check_in_date" \notin keys
                     THEN IF DateMatches(last'.message) # <<>> THEN {}
                          ELSE {NewCheckInFormatPrompt}
                     ELSE IF "new_check_out_date" \notin keys
                     THEN IF DateMatches(last'.message) # <<>> THEN {}
                          ELSE {NewCheckOutFormatPrompt}
                     ELSE {}
             IN  \A prompt \in expected :
                     /\ last'.response = prompt
                     /\ ContextAfter = ContextBefore]_vars

\* C18: a turn classified as a question adds, changes and removes no slot and
\* no flow flag of the saved context (the only key it may add is user_id),
\* leaves the reservation store as it was, and adds one entry to the user's
\* conversation history.
C18_QuestionFrame ==
    [][(now' = now + 1 /\ last'.intent = "question")
          => /\ reservations' = reservations
             /\ Pop(ContextAfter, {"user_id"}) = Pop(ContextBefore, {"user_id"})
             /\ chat_sessions'[last'.user].conversation_history =
                    (IF last'.user \in DOMAIN chat_sessions
                     THEN chat_sessions[last'.user].conversation_history ELSE 0) + 1
             /\ last'.response \in QuestionAnswers]_vars

\* A question that names a room type and a number, asked after a booking was stored.
C18_Witness ==
    /\ last.intent = "question"
    /\ last.message = <<"2025-07-01", "2025-07-03", "deluxe", "2", "guests">>
    /\ Len(reservations) >= 1
    /\ chat_sessions[last.user].conversation_history >= 2

\* C19: in every saved session, the booking slots are present only with the
\* booking flag and the rescheduling slots only with the rescheduling flag;
\* besides slots and flags the context holds user_id only.
C19_OnlyActiveFlowKeys ==
    \A u \in DOMAIN chat_sessions :
        LET keys == DOMAIN chat_sessions[u].context
        IN  keys \subseteq
                {"user_id"} \cup FlowFlags
                \cup (IF "booking_in_progress" \in keys
                      THEN {"check_in_date", "check_out_date", "room_type", "num_guests"}
                      ELSE {})
                \cup (IF "rescheduling_in_progress" \in keys
                      THEN {"reservation_id", "new_check_in_date", "new_check_out_date"}
                      ELSE {})

\* A session saved by the turn that confirmed a booking made with every slot.
C19_Witness ==
    /\ last.response.text = ConfirmationText
    /\ last.response.guests = 2
    /\ DOMAIN SavedContext(last.user) = {"user_id"}
    /\ \E u \in Users \ {last.user} :
           {"booking_in_progress", "check_in_date", "num_guests"} \subseteq DOMAIN SavedContext(u)

\* ------------------------------------------------------- concurrent calls
\* Calls of different users run at the same time; the calls of one user run
\* one after the other.  A call is taken in steps at its file accesses:
\* proc[u].pc names the function the call of u runs next.
ConcurrentMessages ==
    { <<"I", "want", "to", "book", "a", "room">>,
      <<"2025-07-01", "2025-07-03", "deluxe", "2", "guests">>,
      <<"hello">> }

\* From load_agent_state to the handler's load_reservations(): the call has
\* the session entry it will save and, after a booking, the list it will write.
LoadedFrom(t, user_id, pc) ==
    [pc |-> pc, base |-> reservations, list |-> t.file, entry |-> t.sessions[user_id],
     sessions |-> EmptyDict, response |-> t.response]

Loaded(user_id, message, pc) ==
    LoadedFrom(TryBody(chat_sessions, reservations, now + 1, user_id, message, "none"),
               user_id, pc)

\* The call up to load_reservations(), the store not being locked.
Begin(user_id, message) ==
    /\ now < MaxTurns
    /\ proc[user_id].pc = "idle"
    /\ \E loaded \in {Loaded(user_id, message, "save_reservations")} :
           proc' = [proc EXCEPT ![user_id] =
                       IF loaded.list = loaded.base
                       THEN [loaded EXCEPT !.pc = "save_agent_state"]
                       ELSE loaded]
    /\ now' = now + 1
    /\ UNCHANGED <<reservations, chat_sessions, last, flow, script, faults>>

\* save_reservations(reservations) of the list loaded and extended before.
SaveReservations(user_id) ==
    /\ proc[user_id].pc = "save_reservations"
    /\ reservations' = save_reservations(File(reservations, TRUE, "ok"),
                                         proc[user_id].list).content
    /\ proc' = [proc EXCEPT ![user_id].pc = "save_agent_state"]
    /\ UNCHANGED <<chat_sessions, now, last, flow, script, faults>>

\* The call up to save_agent_state, the handler's access to the store (load,
\* change, save) being one step under a lock that all calls share.
BeginSerialized(user_id, message) ==
    /\ now < MaxTurns
    /\ proc[user_id].pc = "idle"
    /\ \E loaded \in {Loaded(user_id, message, "save_agent_state")} :
           /\ proc' = [proc EXCEPT ![user_id] = loaded]
           /\ reservations' = loaded.list
    /\ now' = now + 1
    /\ UNCHANGED <<chat_sessions, last, flow, script, faults>>

\* save_agent_state, line 1: sessions = load_chat_sessions()
LoadSessions(user_id) ==
    /\ proc[user_id].pc = "save_agent_state"
    /\ proc' = [proc EXCEPT ![user_id].pc = "save_chat_sessions",
                            ![user_id].sessions =
                                load_chat_sessions(File(chat_sessions, TRUE, "ok"))]
    /\ UNCHANGED <<reservations, chat_sessions, now, last, flow, script, faults>>

\* save_agent_state, the rest: sessions[user_id] = {...}; save_chat_sessions(sessions)
WriteSessions(user_id) ==
    /\ proc[user_id].pc = "save_chat_sessions"
    /\ chat_sessions' =
           save_chat_sessions(File(chat_sessions, TRUE, "ok"),
                              Put(proc[user_id].sessions, user_id, proc[user_id].entry)).content
    /\ proc' = [proc EXCEPT ![user_id].pc = "idle"]
    /\ UNCHANGED <<reservations, now, last, flow, script, faults>>

\* save_agent_state as one step.
SaveSession(user_id) ==
    /\ proc[user_id].pc = "save_agent_state"
    /\ chat_sessions' = Put(chat_sessions, user_id, proc[user_id].entry)
    /\ proc' = [proc EXCEPT ![user_id].pc = "idle"]
    /\ UNCHANGED <<reservations, now, last, flow, script, faults>>

\* Session access serialized per user id, store access serialized globally.
NextSessions ==
    \E user_id \in Users :
        \/ \E message \in ConcurrentMessages : BeginSerialized(user_id, message)
        \/ LoadSessions(user_id)
        \/ WriteSessions(user_id)

SpecSessions == Init /\ [][NextSessions]_vars

\* Store access not serialized.
NextRace ==
    \E user_id \in Users :
        \/ \E message \in ConcurrentMessages : Begin(user_id, message)
        \/ SaveReservations(user_id)
        \/ SaveSession(user_id)

SpecRace == Init /\ [][NextRace]_vars

\* ------------------------------------------------ messages with guest phrases
\* Messages whose guest count comes from the phrase "<N> guests" or from a
\* standalone number.
GuestMessages ==
    { <<"I", "want", "to", "book", "a", "room">>,
      <<"2025-07-01", "2025-07-03">>,
      <<"deluxe">>,
      <<"suite", "2", "guests">>,
      <<"0", "guests">>,
      <<"0">>,
      <<"2025-07-01", "2025-07-03", "deluxe", "0", "guests">> }

NextGuests ==
    \E user_id \in Users, message \in GuestMessages : handle_instagram_dm(user_id, message)

SpecGuests == Init /\ [][NextGuests]_vars

\* C20: every stored reservation has a room type of the catalog, a guest
\* count of at least one, and the catalog price of its room type as total.
C20_ReservationsWellFormed ==
    \A i \in 1..Len(reservations) :
        /\ reservations[i]["room_type"] \in RoomTypes
        /\ reservations[i]["num_guests"] >= 1
        /\ reservations[i]["total_price"] = Price(reservations[i]["room_type"])

\* The result of the turn just taken had nothing failed, the files being
\* sessions_file and file.
Unfailed(sessions_file, file) ==
    TurnResult(sessions_file, file, now', last'.user, last'.message, "none")

\* C12: every call returns a reply and raises nothing.  A failed read gives
\* the reply the turn gives when the file is empty; a failed write gives
\* the reply of the turn without the failure; a failing text-generation call
\* gives the apology and leaves both stores as they were, and the apology is
\* given in no other case.
C12_AlwaysReplies ==
    [][now' = now + 1
          => LET fault == last'.fault
             IN  /\ ~last'.raised
                 /\ last'.response # NoReply
                 /\ fault = "reservations_read"
                        => last'.response = Unfailed(chat_sessions, <<>>).response
                 /\ fault = "sessions_read"
                        => last'.response = Unfailed(EmptyDict, reservations).response
                 /\ fault \in {"none", "sessions_reread", "reservations_write",
                               "reservations_torn", "sessions_write", "sessions_torn"}
                        => last'.response = Unfailed(chat_sessions, reservations).response
                 /\ fault = "reservations_write" => reservations' = reservations
                 /\ fault = "sessions_write" => chat_sessions' = chat_sessions
                 /\ IF fault = "llm" /\ Unfailed(chat_sessions, reservations).response = LlmAnswer
                    THEN /\ last'.response = ErrorMsg
                         /\ reservations' = reservations
                         /\ chat_sessions' = chat_sessions
                    ELSE last'.response # ErrorMsg]_vars

\* The text-generation call failed in a turn of a user who has a session.
C12_Witness ==
    /\ last.fault = "llm"
    /\ last.response = ErrorMsg
    /\ last.user \in DOMAIN chat_sessions
    /\ Len(reservations) >= 1

\* C13: every stored reservation is stored in every later state with its id
\* (a reservation being told from others by its user and creation time), and
\* a reservation added later has an id no stored reservation has.
C13_ReservationsPersist ==
    [][/\ \A i \in 1..Len(reservations) :
              \E j \in 1..Len(reservations') :
                  /\ reservations'[j]["id"] = reservations[i]["id"]
                  /\ reservations'[j]["user_id"] = reservations[i]["user_id"]
                  /\ reservations'[j]["created_at"] = reservations[i]["created_at"]
       /\ \A j \in 1..Len(reservations') :
              reservations'[j]["created_at"] = now'
                  => \A i \in 1..Len(reservations) :
                         reservations[i]["id"] # reservations'[j]["id"]]_vars

\* C14: when the turn just taken confirmed a booking and the store holds the
\* confirmed reservation, the saved session of that user no longer shows the
\* booking flow in progress.
C14_TurnIsAtomic ==
    (/\ last.response.text = ConfirmationText
     /\ \E i \in 1..Len(reservations) :
            /\ reservations[i]["id"] = last.response.reservation_id
            /\ reservations[i]["user_id"] = last.user
            /\ reservations[i]["created_at"] = now)
        => "booking_in_progress" \notin DOMAIN SavedContext(last.user)

\* C11: when no call is under way, the session store holds for every user
\* who has taken a turn the entry that the user's latest turn produced.
C11_NoSessionUpdateLost ==
    (\A u \in Users : proc[u].pc = "idle")
        => \A u \in Users :
               proc[u].entry # NoEntry
                   => /\ u \in DOMAIN chat_sessions
                      /\ chat_sessions[u] = proc[u].entry

\* Two calls that each completed a booking from the same loaded list and
\* have both saved their lists.
RacedBookings ==
    /\ \A u \in Users :
           /\ proc[u].pc \in {"save_agent_state", "idle"}
           /\ proc[u].response.text = ConfirmationText
    /\ \A u, v \in Users : proc[u].base = proc[v].base

\* C15: after two booking completions that loaded the same list and both
\* saved, the store is that list with one reservation added (the other is
\* lost), and both confirmations carry the same id, the next after the list's.
C15_RaceLosesReservation ==
    RacedBookings
        => \E u \in Users :
               /\ reservations = proc[u].list
               /\ Len(reservations) = Len(proc[u].base) + 1
               /\ \A v \in Users :
                      proc[v].response.reservation_id = Len(proc[u].base) + 1

\* The race after an earlier booking was stored.
C15_Witness ==
    /\ RacedBookings
    /\ \A u \in Users : proc[u].pc = "idle" /\ Len(proc[u].base) = 1
    /\ Len(reservations) = 2

\* C21: a turn that reports a successful rescheduling changes only
\* reservations made by the user of that turn: every stored reservation of
\* another user is the same record afterwards.
C21_RescheduleOwnOnly ==
    [][last'.response = UpdatedMsg
          => \A i \in 1..Len(reservations) :
                 reservations[i]["user_id"] # last'.user
                     => /\ i <= Len(reservations')
                        /\ reservations'[i] = reservations[i]]_vars

====
